---- MODULE Spec2Model ----
(***************************************************************************)
(* Model of kyra_internship_dashboard.py: the cached sqlite3 connection,   *)
(* the schema initializer, the six repository operations and the PDF       *)
(* report loop.                                                            *)
(***************************************************************************)
EXTENDS Integers, Sequences, FiniteSets, TLC

\* ---------------------------------------------------------------- bounds
MaxCalls == 3
MaxRows == 81

\* ------------------------------------------------------ input alphabets
Names == {"Ann", "Bob"}
Emails == {"a@x.com", "b@x.com"}
Companies == {"Acme"}
Durations == {"3 months"}
Notes == {"ok"}
Counts == {2, 5}
FeedbackIds == {1, 9}
Ratings == {3}
Comments == {"fine"}

\* ------------------------------------------------------------ variables
VARIABLES
    students,       \* rows of table students, in rowid order
    internships,    \* rows of table internships, in rowid order
    feedback,       \* rows of table feedback, in rowid order
    conn,           \* the object held by st.cache_resource for get_connection
    initialized,    \* st.cache_data holds a result for initialize_database
    calls,          \* the repository calls made so far, with their outcomes
    data,           \* generate_pdf_report: the rows passed in
    pc,             \* generate_pdf_report: position in the function
    idx,            \* generate_pdf_report: rows consumed by the for loop
    y,              \* generate_pdf_report: the local y
    page,           \* generate_pdf_report: showPage() calls made so far
    drawn           \* generate_pdf_report: drawString() calls made so far

dbvars == <<students, internships, feedback>>
repovars == <<students, internships, feedback, conn, initialized, calls>>
pdfvars == <<data, pc, idx, y, page, drawn>>
vars == <<students, internships, feedback, conn, initialized, calls,
          data, pc, idx, y, page, drawn>>

\* ------------------------------------------------------- Python values
PyTrue == [type |-> "bool", value |-> TRUE]
PyFalse == [type |-> "bool", value |-> FALSE]
PyNone == [type |-> "NoneType"]
PyList(rows) == [type |-> "list", items |-> rows]
EmptyDict == [type |-> "dict", keys |-> {}]
NoError == "none"

\* ----------------------------------------------------- generic helpers
RECURSIVE SumSeq(_)
SumSeq(s) == IF s = <<>> THEN 0 ELSE Head(s) + SumSeq(Tail(s))

RECURSIVE SelectRows(_, _)
SelectRows(s, sid) ==
    IF s = <<>> THEN <<>>
    ELSE IF Head(s).student_id = sid
         THEN <<Head(s)>> \o SelectRows(Tail(s), sid)
         ELSE SelectRows(Tail(s), sid)

Perms(n) == {p \in [1..n -> 1..n] : \A i, j \in 1..n : p[i] = p[j] => i = j}

\* ------------------------------------------------------- the connection
\* variant: the connection is not cached, every call connects anew
connect_uncached(c) == "open"

\* @st.cache_resource: the first call connects, every later call returns
\* the very same connection object, whatever state it was left in.
get_connection(c) == IF c = "none" THEN "open" ELSE c

\* conn.cursor() on a closed connection raises sqlite3.ProgrammingError,
\* a subclass of sqlite3.Error.
CursorRaises(c) == c = "closed"

Outcome(st, it, fb, c, res, err, exc) ==
    [students |-> st, internships |-> it, feedback |-> fb, conn |-> c,
     result |-> res, error |-> err, raised |-> exc]

\* --------------------------------------------------------------- tables
HasEmail(st, email) == \E i \in 1..Len(st) : st[i].email = email

\* SELECT student_id, name FROM students WHERE email = ?  /  fetchone()
StudentByEmail(st, email) ==
    st[CHOOSE i \in 1..Len(st) : st[i].email = email]

\* INSERT OR IGNORE INTO students (name, email): email is UNIQUE,
\* student_id is AUTOINCREMENT and no row is ever deleted.
InsertOrIgnoreStudent(st, name, email) ==
    IF HasEmail(st, email) THEN st
    ELSE Append(st, [student_id |-> Len(st) + 1, name |-> name, email |-> email])

InsertInternship(it, sid, company, duration, note, count) ==
    Append(it, [internship_id |-> Len(it) + 1, student_id |-> sid,
                company_name |-> company, duration |-> duration,
                feedback |-> note, msme_digitalized |-> count])

\* The feedback table declares FOREIGN KEY (student_id) but the connection
\* never issues PRAGMA foreign_keys = ON, so sqlite3 does not enforce it.
InsertFeedback(fb, sid, rating, comments) ==
    Append(fb, [feedback_id |-> Len(fb) + 1, student_id |-> sid,
                rating |-> rating, comments |-> comments])

InternshipTuple(r) == <<r.company_name, r.duration, r.feedback, r.msme_digitalized>>

\* SELECT ... FROM students s JOIN internships i ON s.student_id = i.student_id
JoinIndexes(st, it) ==
    {i \in 1..Len(it) : \E s \in 1..Len(st) : st[s].student_id = it[i].student_id}

ReportRow(st, r) ==
    LET s == st[CHOOSE k \in 1..Len(st) : st[k].student_id = r.student_id]
    IN <<s.name, s.email, r.company_name, r.duration, r.feedback, r.msme_digitalized>>

\* ----------------------------------------------------------- operations
\* variant: the handler names an exception class that ProgrammingError is not
register_student_uncaught(name, email) ==
    LET c == get_connection(conn) IN
    IF CursorRaises(c)
    THEN Outcome(students, internships, feedback, c, PyNone, NoError, TRUE)
    ELSE Outcome(InsertOrIgnoreStudent(students, name, email), internships, feedback,
                 "closed", PyTrue, NoError, FALSE)

register_student(name, email) ==
    LET c == get_connection(conn) IN
    IF CursorRaises(c)
    THEN Outcome(students, internships, feedback, c,
                 PyFalse, "Error registering student", FALSE)
    ELSE Outcome(InsertOrIgnoreStudent(students, name, email), internships, feedback,
                 "closed", PyTrue, NoError, FALSE)

\* variant: the except branch returns True
log_internship_except_true(email, company, duration, note, count) ==
    LET c == get_connection(conn) IN
    IF CursorRaises(c)
    THEN Outcome(students, internships, feedback, c,
                 PyTrue, "Error logging internship", FALSE)
    ELSE IF HasEmail(students, email)
         THEN Outcome(students,
                      InsertInternship(internships, StudentByEmail(students, email).student_id,
                                       company, duration, note, count),
                      feedback, "closed", PyTrue, NoError, FALSE)
         ELSE Outcome(students, internships, feedback, c,
                      PyFalse, "Student email not found.", FALSE)

log_internship(email, company, duration, note, count) ==
    LET c == get_connection(conn) IN
    IF CursorRaises(c)
    THEN Outcome(students, internships, feedback, c,
                 PyFalse, "Error logging internship", FALSE)
    ELSE IF HasEmail(students, email)
         THEN Outcome(students,
                      InsertInternship(internships, StudentByEmail(students, email).student_id,
                                       company, duration, note, count),
                      feedback, "closed", PyTrue, NoError, FALSE)
         ELSE Outcome(students, internships, feedback, c,
                      PyFalse, "Student email not found.", FALSE)

log_feedback(student_id, rating, comments) ==
    LET c == get_connection(conn) IN
    IF CursorRaises(c)
    THEN Outcome(students, internships, feedback, c,
                 PyFalse, "Error logging feedback", FALSE)
    ELSE Outcome(students, internships,
                 InsertFeedback(feedback, student_id, rating, comments),
                 "closed", PyTrue, NoError, FALSE)

\* variant: the except branch returns False instead of None
fetch_student_data_except_false(email) ==
    LET c == get_connection(conn) IN
    IF CursorRaises(c)
    THEN Outcome(students, internships, feedback, c,
                 PyFalse, "Error fetching student data", FALSE)
    ELSE IF HasEmail(students, email)
         THEN LET s == StudentByEmail(students, email)
                  rows == SelectRows(internships, s.student_id)
              IN Outcome(students, internships, feedback, "closed",
                         [type |-> "dict", keys |-> {"student_id", "name", "internships"},
                          student_id |-> s.student_id, name |-> s.name,
                          internships |-> [k \in 1..Len(rows) |-> InternshipTuple(rows[k])]],
                         NoError, FALSE)
         ELSE Outcome(students, internships, feedback, "closed", PyNone, NoError, FALSE)

fetch_student_data(email) ==
    LET c == get_connection(conn) IN
    IF CursorRaises(c)
    THEN Outcome(students, internships, feedback, c,
                 PyNone, "Error fetching student data", FALSE)
    ELSE IF HasEmail(students, email)
         THEN LET s == StudentByEmail(students, email)
                  rows == SelectRows(internships, s.student_id)
              IN Outcome(students, internships, feedback, "closed",
                         [type |-> "dict", keys |-> {"student_id", "name", "internships"},
                          student_id |-> s.student_id, name |-> s.name,
                          internships |-> [k \in 1..Len(rows) |-> InternshipTuple(rows[k])]],
                         NoError, FALSE)
         ELSE Outcome(students, internships, feedback, "closed", PyNone, NoError, FALSE)

\* order: the order in which the engine returns the joined rows (no ORDER BY)
fetch_reports(order) ==
    LET c == get_connection(conn) IN
    IF CursorRaises(c)
    THEN Outcome(students, internships, feedback, c,
                 PyList(<<>>), "Error fetching reports", FALSE)
    ELSE Outcome(students, internships, feedback, "closed",
                 PyList([k \in 1..Len(order) |-> ReportRow(students, internships[order[k]])]),
                 NoError, FALSE)

fetch_metrics ==
    LET c == get_connection(conn) IN
    IF CursorRaises(c)
    THEN Outcome(students, internships, feedback, c,
                 EmptyDict, "Error fetching metrics", FALSE)
    ELSE Outcome(students, internships, feedback, "closed",
                 [type |-> "dict",
                  keys |-> {"total_internships", "total_msmes", "certifications_issued"},
                  total_internships |-> Len(internships),
                  total_msmes |-> SumSeq([k \in 1..Len(internships) |->
                                             internships[k].msme_digitalized]),
                  certifications_issued |->
                      Cardinality({internships[k].student_id : k \in 1..Len(internships)})],
                 NoError, FALSE)

\* -------------------------------------------------------------- actions
\* Module level: initialize_database() runs before any page code; with
\* @st.cache_data its body runs once per process.
initialize_database ==
    /\ ~initialized
    /\ LET c == get_connection(conn) IN
       /\ ~CursorRaises(c)
       /\ conn' = "closed"
    /\ initialized' = TRUE
    /\ UNCHANGED <<students, internships, feedback, calls>>
    /\ UNCHANGED pdfvars

Call(op, args, o) ==
    /\ initialized
    /\ Len(calls) < MaxCalls
    /\ students' = o.students
    /\ internships' = o.internships
    /\ feedback' = o.feedback
    /\ conn' = o.conn
    /\ calls' = Append(calls, [op |-> op, args |-> args, result |-> o.result,
                               error |-> o.error, raised |-> o.raised])
    /\ UNCHANGED initialized
    /\ UNCHANGED pdfvars

RegisterStudent ==
    \E name \in Names, email \in Emails :
        Call("register_student", [name |-> name, email |-> email],
             register_student(name, email))

LogInternship ==
    \E email \in Emails, company \in Companies, duration \in Durations,
       note \in Notes, count \in Counts :
        Call("log_internship",
             [email |-> email, company |-> company, duration |-> duration,
              feedback |-> note, msme_digitalized |-> count],
             log_internship(email, company, duration, note, count))

LogFeedback ==
    \E sid \in FeedbackIds, rating \in Ratings, comments \in Comments :
        Call("log_feedback", [student_id |-> sid, rating |-> rating, comments |-> comments],
             log_feedback(sid, rating, comments))

FetchStudentData ==
    \E email \in Emails :
        Call("fetch_student_data", [email |-> email], fetch_student_data(email))

FetchReports ==
    LET J == JoinIndexes(students, internships) IN
    \E p \in Perms(Cardinality(J)) :
        LET asc == CHOOSE s \in [1..Cardinality(J) -> J] :
                       \A i, j \in 1..Cardinality(J) : i < j => s[i] < s[j]
        IN Call("fetch_reports", [none |-> TRUE],
                fetch_reports([k \in 1..Cardinality(J) |-> asc[p[k]]]))

FetchMetrics ==
    Call("fetch_metrics", [none |-> TRUE], fetch_metrics)

Init ==
    /\ students = <<>>
    /\ internships = <<>>
    /\ feedback = <<>>
    /\ conn = "none"
    /\ initialized = FALSE
    /\ calls = <<>>
    /\ data = <<>>
    /\ pc = "idle"
    /\ idx = 0
    /\ y = 0
    /\ page = 0
    /\ drawn = <<>>

Next ==
    \/ initialize_database
    \/ RegisterStudent
    \/ LogInternship
    \/ LogFeedback
    \/ FetchStudentData
    \/ FetchReports
    \/ FetchMetrics

Spec == Init /\ [][Next]_vars

\* ------------------------------------------------------- report assembler
TopY == 800
LineStep == 20
BottomY == 40
LeftX == 30

\* One ReportRow as fetch_reports returns it; k makes the rows distinct.
Row(k) == <<"Ann", "a@x.com", "Acme", "3 months", "ok", k>>

\* The f-string of the loop body, as its literal and interpolated pieces.
Text(row) ==
    <<"Name: ", row[1], ", Email: ", row[2], ", Company: ", row[3],
      ", Duration: ", row[4], ", Feedback: ", row[5], ", MSMEs Digitalized: ", row[6]>>

\* variant: the page-break test is y <= 40
PageBreakInclusive(yy) == yy <= BottomY

\* if y < 40
PageBreak(yy) == yy < BottomY

\* c = canvas.Canvas(pdf_path); c.setFont(...); y = 800
PdfBegin ==
    /\ pc = "call"
    /\ y' = TopY
    /\ page' = 0
    /\ idx' = 0
    /\ drawn' = <<>>
    /\ pc' = "loop"
    /\ UNCHANGED data
    /\ UNCHANGED repovars

\* one iteration of: for row in data
PdfRow ==
    /\ pc = "loop"
    /\ idx < Len(data)
    /\ drawn' = Append(drawn, [x |-> LeftX, y |-> y, page |-> page,
                               text |-> Text(data[idx + 1])])
    /\ IF PageBreak(y - LineStep)
       THEN /\ page' = page + 1
            /\ y' = TopY
       ELSE /\ page' = page
            /\ y' = y - LineStep
    /\ idx' = idx + 1
    /\ UNCHANGED <<data, pc>>
    /\ UNCHANGED repovars

\* c.save(); return pdf_path
PdfSave ==
    /\ pc = "loop"
    /\ idx = Len(data)
    /\ pc' = "done"
    /\ UNCHANGED <<data, idx, y, page, drawn>>
    /\ UNCHANGED repovars

InitPdf ==
    /\ students = <<>>
    /\ internships = <<>>
    /\ feedback = <<>>
    /\ conn = "none"
    /\ initialized = FALSE
    /\ calls = <<>>
    /\ data \in {[k \in 1..n |-> Row(k)] : n \in 0..MaxRows}
    /\ pc = "call"
    /\ idx = 0
    /\ y = 0
    /\ page = 0
    /\ drawn = <<>>

NextPdf ==
    \/ PdfBegin
    \/ PdfRow
    \/ PdfSave

SpecPdf == InitPdf /\ [][NextPdf]_vars

\* ====================================================== properties
Last == calls[Len(calls)]
Made == Len(calls') = Len(calls) + 1
StudentIdSet == {students[k].student_id : k \in 1..Len(students)}
RowsWithEmail(email) == {k \in 1..Len(students) : students[k].email = email}
StorageErrors ==
    {"Error registering student", "Error logging internship", "Error logging feedback",
     "Error fetching student data", "Error fetching reports", "Error fetching metrics"}

\* The value each operation returns from its except branch.
Benign(op) ==
    CASE op = "register_student" -> PyFalse
      [] op = "log_internship" -> PyFalse
      [] op = "log_feedback" -> PyFalse
      [] op = "fetch_student_data" -> PyNone
      [] op = "fetch_reports" -> PyList(<<>>)
      [] op = "fetch_metrics" -> EmptyDict

\* The internship tuples of the successful log_internship calls for email
\* among the first n calls, in call order.
RECURSIVE LoggedFor(_, _)
LoggedFor(n, email) ==
    IF n = 0 THEN <<>>
    ELSE IF /\ calls[n].op = "log_internship"
            /\ calls[n].args.email = email
            /\ calls[n].result = PyTrue
         THEN Append(LoggedFor(n - 1, email),
                     <<calls[n].args.company, calls[n].args.duration,
                       calls[n].args.feedback, calls[n].args.msme_digitalized>>)
         ELSE LoggedFor(n - 1, email)

\* C1: a register call for an email that an earlier register call already
\* used reports success, leaves the students table as it was, and the table
\* holds exactly one row for that email, carrying the name given first.
C1_ReRegisterIsNoOp ==
    [][\A i \in 1..Len(calls) :
          (/\ Made
           /\ calls[i].op = "register_student"
           /\ calls'[Len(calls')].op = "register_student"
           /\ calls'[Len(calls')].args.email = calls[i].args.email
           /\ \A h \in 1..(i - 1) : ~(/\ calls[h].op = "register_student"
                                      /\ calls[h].args.email = calls[i].args.email))
          => /\ calls'[Len(calls')].result = PyTrue
             /\ students' = students
             /\ Cardinality(RowsWithEmail(calls[i].args.email)) = 1
             /\ \A k \in RowsWithEmail(calls[i].args.email) :
                    students[k].name = calls[i].args.name]_vars

\* C2: log_internship with an email that matches no Student row returns
\* False and leaves the three tables as they were.
C2_UnregisteredLogRejected ==
    [][(/\ Made
        /\ calls'[Len(calls')].op = "log_internship"
        /\ ~HasEmail(students, calls'[Len(calls')].args.email))
       => /\ calls'[Len(calls')].result = PyFalse
          /\ dbvars' = dbvars]_vars

C2_Witness ==
    /\ calls # <<>>
    /\ Last.op = "log_internship"
    /\ ~HasEmail(students, Last.args.email)
    /\ Last.result = PyFalse
    /\ internships = <<>>

\* C3: fetch_metrics returns the number of Internship rows, the sum of their
\* digitalized counts (0 without rows) and the number of distinct owning
\* students.
C3_MetricsMatchTables ==
    \A i \in 1..Len(calls) :
        calls[i].op = "fetch_metrics" /\ i = Len(calls)
        => calls[i].result =
               [type |-> "dict",
                keys |-> {"total_internships", "total_msmes", "certifications_issued"},
                total_internships |-> Len(internships),
                total_msmes |-> SumSeq([k \in 1..Len(internships) |->
                                           internships[k].msme_digitalized]),
                certifications_issued |->
                    Cardinality({internships[k].student_id : k \in 1..Len(internships)})]

\* C4: fetch_student for an email given to an earlier register call returns a
\* view whose internships are exactly the tuples of the successful
\* log_internship calls for that email, in call order.
C4_ViewListsLoggedInternships ==
    \A i, j \in 1..Len(calls) :
        (/\ i < j
         /\ calls[i].op = "register_student"
         /\ calls[j].op = "fetch_student_data"
         /\ calls[j].args.email = calls[i].args.email)
        => /\ calls[j].result.type = "dict"
           /\ calls[j].result.internships = LoggedFor(j - 1, calls[j].args.email)

\* C5: no call fails on the state the connection was left in, and a register
\* directly followed by log_internship for the same email both succeed.
C5_CallsAreIndependent ==
    /\ \A i \in 1..Len(calls) : calls[i].error \notin StorageErrors
    /\ \A i \in 1..(Len(calls) - 1) :
           (/\ calls[i].op = "register_student"
            /\ calls[i + 1].op = "log_internship"
            /\ calls[i + 1].args.email = calls[i].args.email)
           => /\ calls[i].result = PyTrue
              /\ calls[i + 1].result = PyTrue

C7_StorageErrorsAreCaught ==
    [][(/\ Made
        /\ \/ calls'[Len(calls')].error \in StorageErrors
           \/ calls'[Len(calls')].raised)
       => /\ ~calls'[Len(calls')].raised
          /\ calls'[Len(calls')].result = Benign(calls'[Len(calls')].op)
          /\ dbvars' = dbvars]_vars

C7_Witness ==
    /\ Len(calls) = 3
    /\ \A i \in 1..3 : calls[i].error \in StorageErrors /\ ~calls[i].raised
    /\ calls[1].op = "register_student"
    /\ calls[2].op = "fetch_student_data"
    /\ calls[3].op = "fetch_metrics"

C9_ReportsMatchInternships ==
    \A i \in 1..Len(calls) :
        calls[i].op = "fetch_reports"
        => /\ ~calls[i].raised
           /\ calls[i].result.type = "list"
           /\ (i = Len(calls) =>
                 /\ Len(calls[i].result.items) = Len(internships)
                 /\ \E p \in Perms(Len(internships)) :
                        \A k \in 1..Len(internships) :
                            /\ internships[p[k]].student_id \in StudentIdSet
                            /\ calls[i].result.items[k] =
                                   ReportRow(students, internships[p[k]]))
           /\ (i < Len(calls) /\ calls[i + 1].op = "fetch_metrics" =>
                 /\ "total_internships" \in calls[i + 1].result.keys
                 /\ calls[i + 1].result.total_internships = Len(calls[i].result.items))

\* C10: row k (0-based) is drawn on page k div 39 at 800 - 20 * (k mod 39),
\* every position lies in 40..800, no page holds more than 39 rows, a page is
\* started exactly after each 39th row, and at the end every input row has
\* been drawn once, in input order.
C10_RowsPaginate ==
    pc \in {"loop", "done"} =>
        /\ Len(drawn) = idx
        /\ idx <= Len(data)
        /\ \A i \in 1..Len(drawn) :
               /\ drawn[i].text = Text(data[i])
               /\ drawn[i].page = (i - 1) \div 39
               /\ drawn[i].y = 800 - 20 * ((i - 1) % 39)
               /\ drawn[i].y >= 40
               /\ drawn[i].y <= 800
        /\ \A q \in 0..page :
               Cardinality({i \in 1..Len(drawn) : drawn[i].page = q}) <= 39
        /\ page = idx \div 39
        /\ y = 800 - 20 * (idx % 39)
        /\ (pc = "done" => Len(drawn) = Len(data))

C10_Witness ==
    /\ pc = "done"
    /\ Len(data) >= 79
    /\ Len(drawn) = Len(data)
    /\ page = 2
    /\ drawn[39].y = 40
    /\ drawn[40].y = 800

====
